---- MODULE Spec2Model ----
(***************************************************************************)
(* A model of calc.py, a command-line calculator over streams of numbers.  *)
(*                                                                         *)
(* Four parts of the program are modelled, each with its own               *)
(* specification over the shared variables:                                *)
(*   Spec_stats  s_mean_var, the single-pass mean and variance             *)
(*   Spec_hist   hist_formatter, the ASCII rendering of a histogram        *)
(*   Spec_cmd    Command and CommandProcessor (registry and dispatch)      *)
(*   Spec_main   the __main__ block (the command-line frontend)            *)
(*                                                                         *)
(* Text is a sequence of one-character strings, so that strip(), x[0],     *)
(* len() and the ordering of names are computed character by character.    *)
(* Floats are exact: rationals [num, den] in s_mean_var, integer-valued    *)
(* floats elsewhere.                                                       *)
(***************************************************************************)
EXTENDS Integers, Sequences, FiniteSets, TLC

VARIABLES
  mv,          \* the frame of one call of s_mean_var
  hf,          \* the frame of one call of hist_formatter
  _commands,   \* CommandProcessor._commands: name -> Command
  X,           \* the stream object handed to CommandProcessor.process
  last,        \* the last call of a CommandProcessor method: what it was given and did
  main         \* the frame of the __main__ block

vars == <<mv, hf, _commands, X, last, main>>

\* Python's None: as a name or a type it is a string like the others, as a
\* text it is a sequence holding this one non-character, and as an object
\* it is a record with no field of a Command
None == "None"
NoneText == <<None>>
NoneObject == [type |-> "NoneType"]

(***************************************************************************)
(* Bounds of the model.                                                    *)
(***************************************************************************)
\* s_mean_var: the longest input, and the range of its elements
MaxLen == 3
MaxVal == 5
MaxNeg == 2

(***************************************************************************)
(* Sequences.                                                              *)
(***************************************************************************)
SeqsUpTo(S, n) == UNION { [1..k -> S] : k \in 0..n }

RECURSIVE SumSeq(_)
SumSeq(s) == IF s = <<>> THEN 0 ELSE Head(s) + SumSeq(Tail(s))

Prefix(s, k) == SubSeq(s, 1, k)

(***************************************************************************)
(* Exact arithmetic: a float is a rational [num, den] in lowest terms with *)
(* den > 0, so that equal values are equal records.                        *)
(***************************************************************************)
Abs(a) == IF a < 0 THEN 0 - a ELSE a

RECURSIVE GCD(_, _)
GCD(a, b) == IF b = 0 THEN a ELSE GCD(b, a % b)

Rat(n, d) ==
  LET s == IF d < 0 THEN 0 - 1 ELSE 1
      g == GCD(Abs(n), Abs(d))
  IN  [num |-> (s * n) \div g, den |-> (s * d) \div g]

R(n) == [num |-> n, den |-> 1]
RAdd(a, b) == Rat(a.num * b.den + b.num * a.den, a.den * b.den)
RSub(a, b) == Rat(a.num * b.den - b.num * a.den, a.den * b.den)
RMul(a, b) == Rat(a.num * b.num, a.den * b.den)
RDiv(a, b) == Rat(a.num * b.den, a.den * b.num)

(***************************************************************************)
(* s_mean_var (calc.py 79-95).                                             *)
(***************************************************************************)
MeanVarInputs == SeqsUpTo((0 - MaxNeg)..MaxVal, MaxLen)

\* line 91 with the old mean in both factors
next_m_newS_oldM_twice(m_oldS, m_oldM, m_newM, x) ==
  RAdd(m_oldS, RMul(RSub(x, m_oldM), RSub(x, m_oldM)))

\* line 90: m_newM = m_oldM + (x - m_oldM) / m_n
next_m_newM(m_oldM, x, m_n) == RAdd(m_oldM, RDiv(RSub(x, m_oldM), R(m_n)))

\* line 91: m_newS = m_oldS + (x - m_oldM)*(x - m_newM)
next_m_newS(m_oldS, m_oldM, m_newM, x) ==
  RAdd(m_oldS, RMul(RSub(x, m_oldM), RSub(x, m_newM)))

\* lines 82-83: the locals before the loop
s_mean_var_enter(data) ==
  [pc |-> "loop", data |-> data, i |-> 0, m_n |-> 0,
   m_oldM |-> R(0), m_newM |-> R(0), m_oldS |-> R(0), m_newS |-> R(0),
   ret |-> <<>>]

\* lines 84-92: one iteration of the loop, on the next element of data
s_mean_var_iter ==
  /\ mv.pc = "loop"
  /\ mv.i < Len(mv.data)
  /\ LET x == R(mv.data[mv.i + 1])
         n == mv.m_n + 1
     IN  IF n = 1
         THEN mv' = [mv EXCEPT !.i = @ + 1, !.m_n = n,
                               !.m_oldM = x, !.m_newM = x, !.m_oldS = R(0)]
         ELSE LET newM == next_m_newM(mv.m_oldM, x, n)
                  newS == next_m_newS(mv.m_oldS, mv.m_oldM, newM, x)
              IN  mv' = [mv EXCEPT !.i = @ + 1, !.m_n = n,
                                   !.m_newM = newM, !.m_newS = newS,
                                   !.m_oldM = newM, !.m_oldS = newS]
  /\ UNCHANGED <<hf, _commands, X, last, main>>

\* lines 93-95: the loop is over, the pair is returned
s_mean_var_return ==
  /\ mv.pc = "loop"
  /\ mv.i = Len(mv.data)
  /\ LET mean == IF mv.m_n > 0 THEN mv.m_newM ELSE R(0)
         var  == IF mv.m_n > 1 THEN RDiv(mv.m_newS, R(mv.m_n - 1)) ELSE R(0)
     IN  mv' = [mv EXCEPT !.pc = "done", !.ret = <<mean, var>>]
  /\ UNCHANGED <<hf, _commands, X, last, main>>

(***************************************************************************)
(* Text: sequences of one-character strings.                               *)
(***************************************************************************)
NL == <<"\n">>
TAB == <<"\t">>

Max(S) == CHOOSE m \in S : \A y \in S : y <= m

\* str.join
RECURSIVE join(_, _)
join(sep, parts) ==
  IF parts = <<>> THEN <<>>
  ELSE IF Len(parts) = 1 THEN parts[1]
  ELSE parts[1] \o sep \o join(sep, Tail(parts))

\* str * int: the empty string when the count is not positive
str_times(ch, n) == IF n <= 0 THEN <<>> ELSE [k \in 1..(n * Len(ch)) |-> ch[((k - 1) % Len(ch)) + 1]]

\* str.rjust with spaces
rjust(s, w) == IF Len(s) >= w THEN s ELSE [k \in 1..(w - Len(s)) |-> " "] \o s

DigitChar(d) ==
  CASE d = 0 -> "0" [] d = 1 -> "1" [] d = 2 -> "2" [] d = 3 -> "3" [] d = 4 -> "4"
    [] d = 5 -> "5" [] d = 6 -> "6" [] d = 7 -> "7" [] d = 8 -> "8" [] d = 9 -> "9"

\* the decimal digits of a natural number
RECURSIVE Digits(_)
Digits(n) == IF n < 10 THEN <<DigitChar(n)>> ELSE Digits(n \div 10) \o <<DigitChar(n % 10)>>

\* str(int)
str_int(n) == IF n < 0 THEN <<"-">> \o Digits(0 - n) ELSE Digits(n)

\* str(float) of an integer-valued float below 1e12: "6.0", "-2.0"
str_float(v) == str_int(v) \o <<".", "0">>

(***************************************************************************)
(* hist_formatter (calc.py 62-77).  A histogram result is (vals, bins):    *)
(* bin counts and the len(vals)+1 bin edges, here integer-valued floats    *)
(* of magnitude below 1000.                                                *)
(***************************************************************************)
\* hist_formatter: the counts, the bin count, the widths tried
MaxCount == 4
MaxBins == 2
MaxWidth == 12

\* '%0.2g' % b: two significant digits, exponent form from 100 up, where the
\* mantissa is rounded half to even (the edge is an exact binary float)
fmt_02g(b) ==
  LET a == Abs(b)
      sign == IF b < 0 THEN <<"-">> ELSE <<>>
      q == a \div 10
      r == a % 10
      m == IF r > 5 \/ (r = 5 /\ q % 2 = 1) THEN q + 1 ELSE q
  IN  IF a < 100 THEN sign \o Digits(a)
      ELSE IF m = 100 THEN sign \o <<"1", "e", "+", "0", "3">>
      ELSE IF m % 10 = 0 THEN sign \o <<DigitChar(m \div 10), "e", "+", "0", "2">>
      ELSE sign \o <<DigitChar(m \div 10), ".", DigitChar(m % 10), "e", "+", "0", "2">>

\* line 69 without the factor 2 on the label width
needs_rescale_one_label(max_val, max_bin_len, max_width) ==
  max_val + 5 + max_bin_len > max_width

\* line 71 dividing before multiplying
scaled_val_divide_first(max_available_width, v, max_val) ==
  max_available_width * (v \div max_val)

\* line 69: max_val + 5 + (max_bin_len*2) > max_width
needs_rescale(max_val, max_bin_len, max_width) ==
  max_val + 5 + (max_bin_len * 2) > max_width

\* line 71: max_available_width * v // max_val, a floor division
scaled_val(max_available_width, v, max_val) ==
  (max_available_width * v) \div max_val

\* lines 73-76: the rows, the last one closed with "]"
hist_rows(s_bins, vals, tick_char) ==
  LET n == Len(vals)
      row(i, close) == <<"[">> \o s_bins[i] \o <<",">> \o s_bins[i + 1]
                       \o <<close, ":", " ">> \o str_times(tick_char, vals[i])
      s == join(NL, [i \in 1..(n - 1) |-> row(i, ")")])
  IN  s \o NL \o row(n, "]")

\* lines 62-77; a division by zero at line 71 raises ZeroDivisionError
hist_formatter(x, tick_char, max_width) ==
  LET vals == x[1]
      bins == x[2]
      s_bins0 == [i \in 1..Len(bins) |-> fmt_02g(bins[i])]
      max_bin_len == Max({Len(s_bins0[i]) : i \in 1..Len(s_bins0)})
      s_bins == [i \in 1..Len(bins) |-> rjust(s_bins0[i], max_bin_len)]
      max_val == Max({vals[i] : i \in 1..Len(vals)})
      max_available_width == max_width - 5 - (max_bin_len * 2)
  IN  IF needs_rescale(max_val, max_bin_len, max_width)
      THEN IF max_val = 0
           THEN [kind |-> "raise", exc |-> "ZeroDivisionError"]
           ELSE [kind |-> "return",
                 s |-> hist_rows(s_bins,
                         [i \in 1..Len(vals) |->
                            scaled_val(max_available_width, vals[i], max_val)],
                         tick_char)]
      ELSE [kind |-> "return", s |-> hist_rows(s_bins, vals, tick_char)]

\* the inputs tried: counts, equally spaced edges, tick character, width
HistCounts == SeqsUpTo(0..MaxCount, MaxBins) \ {<<>>}
HistEdges(lo, step, n) == [i \in 1..(n + 1) |-> lo + (i - 1) * step]
HistLows == {0 - 10, 0, 8, 95}
HistSteps == {1, 5}
TickChars == {<<"#">>, <<"*">>}

hist_formatter_enter(vals, bins, tick_char, max_width) ==
  [pc |-> "call", x |-> <<vals, bins>>, tick_char |-> tick_char,
   max_width |-> max_width, out |-> [kind |-> "none"]]

\* one call of hist_formatter, to its return or its exception
hist_formatter_call ==
  /\ hf.pc = "call"
  /\ hf' = [hf EXCEPT !.pc = "done",
                      !.out = hist_formatter(hf.x, hf.tick_char, hf.max_width)]
  /\ UNCHANGED <<mv, _commands, X, last, main>>

(***************************************************************************)
(* Characters, in ASCII order: Python 2 compares str byte by byte.         *)
(***************************************************************************)
Alphabet ==
  <<"\t", "\n", " ", "#", "(", ")", "+", ",", "-", ".",
    "0", "1", "2", "3", "4", "5", "6", "7", "8", "9", ":", "<", ">",
    "A", "B", "C", "D", "E", "F", "G", "H", "I", "J", "K", "L", "M",
    "N", "O", "P", "Q", "R", "S", "T", "U", "V", "W", "X", "Y", "Z",
    "[", "]", "_",
    "a", "b", "c", "d", "e", "f", "g", "h", "i", "j", "k", "l", "m",
    "n", "o", "p", "q", "r", "s", "t", "u", "v", "w", "x", "y", "z">>

OrdTable ==
  [ch \in {Alphabet[i] : i \in 1..Len(Alphabet)} |->
     CHOOSE i \in 1..Len(Alphabet) : Alphabet[i] = ch]

\* the rank of a character among those of Alphabet, ordered as ord() orders them
ord(ch) == OrdTable[ch]

\* a < b for two str values
RECURSIVE str_lt(_, _)
str_lt(a, b) ==
  IF b = <<>> THEN FALSE
  ELSE IF a = <<>> THEN TRUE
  ELSE IF Head(a) = Head(b) THEN str_lt(Tail(a), Tail(b))
  ELSE ord(Head(a)) < ord(Head(b))

IsSpace(c) == c \in {" ", "\t", "\n"}
IsDigit(c) == c \in {"0", "1", "2", "3", "4", "5", "6", "7", "8", "9"}
DigitVal(c) == ord(c) - ord("0")

\* str.strip
RECURSIVE lstrip(_)
lstrip(s) == IF s # <<>> /\ IsSpace(Head(s)) THEN lstrip(Tail(s)) ELSE s

RECURSIVE rstrip(_)
rstrip(s) ==
  IF s # <<>> /\ IsSpace(s[Len(s)]) THEN rstrip(SubSeq(s, 1, Len(s) - 1)) ELSE s

strip(s) == rstrip(lstrip(s))

RECURSIVE DigitsValue(_)
DigitsValue(s) ==
  IF s = <<>> THEN 0 ELSE 10 * DigitsValue(SubSeq(s, 1, Len(s) - 1)) + DigitVal(s[Len(s)])

\* the digits before the first "." of an unsigned literal, and those after it
RECURSIVE int_digits(_)
int_digits(body) ==
  IF body = <<>> \/ Head(body) = "." THEN <<>> ELSE <<Head(body)>> \o int_digits(Tail(body))

RECURSIVE frac_digits(_)
frac_digits(body) ==
  IF body = <<>> THEN <<>>
  ELSE IF Head(body) = "." THEN Tail(body)
  ELSE frac_digits(Tail(body))

float_of(s, neg, int_part, frac_part) ==
  IF /\ int_part # <<>>
     /\ \A i \in 1..Len(int_part) : IsDigit(int_part[i])
     /\ \A i \in 1..Len(frac_part) : frac_part[i] = "0"
  THEN [ok |-> TRUE, v |-> IF neg THEN 0 - DigitsValue(int_part) ELSE DigitsValue(int_part)]
  ELSE [ok |-> FALSE,
        exc |-> [type |-> "ValueError", msg |-> <<"i", "n", "v", "a", "l", "i", "d", " ", "l", "i", "t", "e", "r", "a", "l", " ", "f", "o", "r", " ", "f", "l", "o", "a", "t", "(", ")", ":", " ">> \o s]]

unsigned(s) == IF s # <<>> /\ s[1] \in {"-", "+"} THEN Tail(s) ELSE s

\* float(s) on the texts read here: an optional sign, digits, and an optional
\* "." followed by zeros give an integer-valued float; a text that is not a
\* number raises ValueError
float(s) ==
  float_of(s, s # <<>> /\ s[1] = "-", int_digits(unsigned(s)), frac_digits(unsigned(s)))

NoExc == [type |-> None, msg |-> <<>>]

(***************************************************************************)
(* Streams.  A stream is a list of floats, or the generator expression of  *)
(* the frontend (calc.py 213-214) over the lines fileinput yields; a       *)
(* generator is read once and is closed by its end or by an exception.     *)
(***************************************************************************)
list_stream(items) == [kind |-> "list", items |-> items, pos |-> 0, closed |-> FALSE]
genexpr_stream(lines) == [kind |-> "generator", items |-> lines, pos |-> 0, closed |-> FALSE]

\* line 214, testing the first character of the stripped line instead
line_kept_after_strip(x) == Len(strip(x)) > 0 /\ strip(x)[1] # "#"

\* line 214: len(x.strip()) > 0 and x[0] != '#'
line_kept(x) == Len(strip(x)) > 0 /\ x[1] # "#"

\* lines 213-214 run from line pos+1 until the input ends or float() raises:
\* the floats yielded, the exception, the number of lines read, and the
\* numbers of the lines whose stripped text was given to float()
RECURSIVE genexpr_run(_, _, _, _)
genexpr_yield(lines, pos, yielded, parsed, f) ==
  IF f.ok
  THEN genexpr_run(lines, pos + 1, Append(yielded, f.v), Append(parsed, pos + 1))
  ELSE [items |-> yielded, exc |-> f.exc, pos |-> pos + 1,
        parsed |-> Append(parsed, pos + 1)]

genexpr_run(lines, pos, yielded, parsed) ==
  IF pos = Len(lines)
  THEN [items |-> yielded, exc |-> NoExc, pos |-> pos, parsed |-> parsed]
  ELSE IF ~line_kept(lines[pos + 1])
  THEN genexpr_run(lines, pos + 1, yielded, parsed)
  ELSE genexpr_yield(lines, pos, yielded, parsed, float(strip(lines[pos + 1])))

\* the generator after a run: it is closed, by its end or by the exception
genexpr_ran(s, r) ==
  [items |-> r.items, exc |-> r.exc,
   after |-> [s EXCEPT !.pos = r.pos, !.closed = TRUE], parsed |-> r.parsed]

\* a list handed out once only: a list read like a generator
iterate_list_once(s) ==
  IF s.kind = "list"
  THEN [items |-> SubSeq(s.items, s.pos + 1, Len(s.items)), exc |-> NoExc,
        after |-> [s EXCEPT !.pos = Len(s.items)], parsed |-> <<>>]
  ELSE genexpr_ran(s, genexpr_run(s.items, s.pos, <<>>, <<>>))

\* "for x in data" to its end: what it yields, what it raises, the stream after
iterate(s) ==
  IF s.kind = "list"
  THEN [items |-> s.items, exc |-> NoExc, after |-> s, parsed |-> <<>>]
  ELSE IF s.closed
  THEN [items |-> <<>>, exc |-> NoExc, after |-> s, parsed |-> <<>>]
  ELSE genexpr_ran(s, genexpr_run(s.items, s.pos, <<>>, <<>>))

(***************************************************************************)
(* The functions and formatters the commands are built from.  A value is   *)
(* a float or an int [t, v], the data object itself [t |-> "data"], a      *)
(* generator not yet run [t |-> "generator"], or a list of floats.         *)
(***************************************************************************)
RECURSIVE ProdSeq(_)
ProdSeq(s) == IF s = <<>> THEN 1 ELSE Head(s) * ProdSeq(Tail(s))

Min(S) == CHOOSE m \in S : \A y \in S : m <= y
Range(s) == {s[i] : i \in 1..Len(s)}

Raise(type, msg) == [type |-> type, msg |-> msg]

\* a function of the catalogue applied to what the data yields (it): the
\* value or the exception, and the stream as the call leaves it
call_function_on(f, it) ==
  CASE it.exc.type # None ->
         [val |-> [t |-> None], exc |-> it.exc, after |-> it.after, parsed |-> it.parsed]
    [] OTHER ->
         [exc |-> IF f \in {"max", "min"} /\ it.items = <<>>
                  THEN Raise("ValueError", <<"m">> \o (IF f = "max" THEN <<"a", "x">> ELSE <<"i", "n">>)
                                           \o <<"(", ")", " ", "a", "r", "g", " ", "i", "s", " ", "a", "n", " ", "e", "m", "p", "t", "y", " ", "s", "e", "q", "u", "e", "n", "c", "e">>)
                  ELSE NoExc,
          after |-> it.after, parsed |-> it.parsed,
          val |->
            CASE f = "sum" ->
                   \* the builtin: 0 + x1 + x2 + ..., the int 0 for no elements
                   IF it.items = <<>> THEN [t |-> "int", v |-> 0]
                   ELSE [t |-> "float", v |-> SumSeq(it.items)]
              [] f \in {"max", "min"} /\ it.items = <<>> -> [t |-> None]
              [] f = "max" -> [t |-> "float", v |-> Max(Range(it.items))]
              [] f = "min" -> [t |-> "float", v |-> Min(Range(it.items))]
              [] f = "s_prod" ->
                   \* lines 116-119
                   [t |-> "float", v |-> ProdSeq(it.items)]
              [] f = "l(n.cumsum)" ->
                   \* lines 121-124 around numpy.cumsum
                   [t |-> "list",
                    items |-> [i \in 1..Len(it.items) |-> SumSeq(Prefix(it.items, i))]]]

call_function(f, data) ==
  IF f = "s_cumprod"
  THEN \* lines 107-111: a generator function, nothing runs at the call
       [val |-> [t |-> "generator", f |-> f], exc |-> NoExc, after |-> data, parsed |-> <<>>]
  ELSE call_function_on(f, iterate(data))

\* str() of a stream object: the repr of a list of floats, or of a generator
\* (the address is the object's, the same at every call)
str_data(data) ==
  IF data.kind = "list"
  THEN <<"[">> \o join(<<",", " ">>, [i \in 1..Len(data.items) |-> str_float(data.items[i])])
       \o <<"]">>
  ELSE <<"<", "g", "e", "n", "e", "r", "a", "t", "o", "r", " ", "o", "b", "j", "e", "c", "t", " ", "<", "g", "e", "n", "e", "x", "p", "r", ">", " ", "a", "t", " ", "0", "x", "1", ">">>

\* line 60: '\n'.join( str(x) for x in l ), on the floats l yields
list_formatter(l) == join(NL, [i \in 1..Len(l) |-> str_float(l[i])])

\* list_formatter on an iterable that yields items as the data is read (it)
drained(it, items) ==
  IF it.exc.type # None
  THEN [text |-> <<>>, exc |-> it.exc, after |-> it.after, parsed |-> it.parsed]
  ELSE [text |-> list_formatter(items), exc |-> NoExc,
        after |-> it.after, parsed |-> it.parsed]

\* s_cumprod (lines 107-111) over the items the data yields
s_cumprod(items) == [i \in 1..Len(items) |-> ProdSeq(Prefix(items, i))]

drained_data(it) == drained(it, it.items)
drained_cumprod(it) == drained(it, s_cumprod(it.items))

\* a formatter that reads nothing from the data
untouched(data, text) == [text |-> text, exc |-> NoExc, after |-> data, parsed |-> <<>>]

\* a formatter applied to a value: the text or the exception, and the stream
\* as the formatter leaves it
apply_formatter(formatter, val, data) ==
  CASE formatter = "str" /\ val.t = "float" -> untouched(data, str_float(val.v))
    [] formatter = "str" /\ val.t = "int" -> untouched(data, str_int(val.v))
    [] formatter = "str" /\ val.t = "data" -> untouched(data, str_data(data))
    [] formatter = "list_formatter" /\ val.t = "data" ->
         drained_data(iterate(data))
    [] formatter = "list_formatter" /\ val.t = "generator" ->
         \* s_cumprod runs now, as the formatter iterates it
         drained_cumprod(iterate(data))
    [] formatter = "list_formatter" /\ val.t = "list" ->
         untouched(data, list_formatter(val.items))
    [] formatter = "list_formatter" /\ val.t \in {"float", "int"} ->
         [text |-> <<>>, after |-> data, parsed |-> <<>>,
          exc |-> Raise("TypeError",
                        <<"'">> \o (IF val.t = "int" THEN <<"i", "n", "t">> ELSE <<"f", "l", "o", "a", "t">>)
                        \o <<"'", " ", "o", "b", "j", "e", "c", "t", " ", "i", "s", " ", "n", "o", "t", " ", "i", "t", "e", "r", "a", "b", "l", "e">>)]

(***************************************************************************)
(* Command (calc.py 126-138).                                              *)
(***************************************************************************)
\* lines 129-132
Command(function, formatter, help) ==
  [function |-> function, formatter |-> formatter, help |-> help]

\* line 135 never calling the function
Command___call___passthrough(self, data) ==
  [val |-> [t |-> "data"], exc |-> NoExc, after |-> data, parsed |-> <<>>]

\* lines 134-135: self.function(data) if self.function else data
Command___call__(self, data) ==
  IF self.function # None
  THEN call_function(self.function, data)
  ELSE [val |-> [t |-> "data"], exc |-> NoExc, after |-> data, parsed |-> <<>>]

\* the callables Command.process has entered
called(self, formatted) ==
  (IF self.function # None THEN <<self.function>> ELSE <<>>)
    \o (IF formatted THEN <<self.formatter>> ELSE <<>>)

\* line 138 once self(data) has raised or returned r, and the formatter f
Command_process_raised(self, r) ==
  [kind |-> "raise", exc |-> r.exc, text |-> <<>>, calls |-> called(self, FALSE),
   after |-> r.after, parsed |-> r.parsed]

Command_process_formatted(self, r, f) ==
  [kind |-> IF f.exc.type # None THEN "raise" ELSE "return",
   exc |-> f.exc, text |-> f.text, calls |-> called(self, TRUE),
   after |-> f.after, parsed |-> r.parsed \o f.parsed]

Command_process_after_call(self, r) ==
  IF r.exc.type # None
  THEN Command_process_raised(self, r)
  ELSE Command_process_formatted(self, r, apply_formatter(self.formatter, r.val, r.after))

\* lines 137-138: self.formatter(self(data))
Command_process(self, data) == Command_process_after_call(self, Command___call__(self, data))

(***************************************************************************)
(* CommandProcessor (calc.py 140-165).                                     *)
(***************************************************************************)
\* lines 145-150
register_command(commands, name, command, function, formatter, help) ==
  LET new == IF command # NoneObject THEN command ELSE Command(function, formatter, help)
  IN  [n \in DOMAIN commands \cup {name} |-> IF n = name THEN new ELSE commands[n]]

\* lines 152-153
valid_command(commands, command) == command \in DOMAIN commands

\* a name put at its place in a list of names in ascending order
RECURSIVE insert_sorted(_, _)
insert_sorted(n, names) ==
  IF names = <<>> THEN <<n>>
  ELSE IF str_lt(n, Head(names)) THEN <<n>> \o names
  ELSE <<Head(names)>> \o insert_sorted(n, Tail(names))

\* the names of a set in ascending order
RECURSIVE sorted_names(_)
sorted_names(names) ==
  IF names = {} THEN <<>>
  ELSE insert_sorted(CHOOSE n \in names : TRUE,
                     sorted_names(names \ {CHOOSE n \in names : TRUE}))

with_commands(commands, names) == [i \in 1..Len(names) |-> <<names[i], commands[names[i]]>>]

reversed(l) == [i \in 1..Len(l) |-> l[Len(l) + 1 - i]]

\* the items of the dict in descending order of name
sorted_items_descending(commands) ==
  with_commands(commands, reversed(sorted_names(DOMAIN commands)))

\* line 157: sorted(self._commands.items()), the (name, command) pairs in
\* ascending order of name (the names of a dict differ, so no two pairs tie)
sorted_items(commands) == with_commands(commands, sorted_names(DOMAIN commands))

\* '%s' % c.help
str_help(help) == IF help = NoneText THEN <<"N", "o", "n", "e">> ELSE help

\* line 156: '\t%s\t%s' % (name, c.help) for each item
all_commands_help(items) ==
  [i \in 1..Len(items) |-> TAB \o items[i][1] \o TAB \o str_help(items[i][2].help)]

\* lines 155-158
command_list(commands) ==
  join(NL, all_commands_help(sorted_items(commands)))

\* lines 160-165 with a default command for a missing name
CommandProcessor_process_default(commands, command, data) ==
  IF command \in DOMAIN commands
  THEN Command_process(commands[command], data)
  ELSE Command_process(Command(None, "str", NoneText), data)

\* lines 160-165
CommandProcessor_process(commands, command, data) ==
  IF command \notin DOMAIN commands
  THEN \* KeyError at line 162, turned into ValueError at line 164
       [kind |-> "raise", text |-> <<>>, calls |-> <<>>, after |-> data, parsed |-> <<>>,
        exc |-> Raise("ValueError", <<"C", "o", "m", "m", "a", "n", "d", " ", "n", "o", "t", " ", "f", "o", "u", "n", "d", ":", " ">> \o command)]
  ELSE Command_process(commands[command], data)

\* lines 167-192: the module's registrations, in order, as
\* <<name, function, formatter, help>>
Registrations ==
  << <<<<"s", "u", "m">>, "sum", "str", <<"A", "d", "d", " ", "a", " ", "l", "i", "s", "t", " ", "o", "f", " ", "n", "u", "m", "b", "e", "r", "s">>>>,
     <<<<"a", "d", "d">>, "sum", "str", <<"s", "e", "e", " ", "s", "u", "m">>>>,
     <<<<"m", "a", "x">>, "max", "str", <<"M", "a", "x">>>>,
     <<<<"m", "i", "n">>, "min", "str", <<"M", "i", "n">>>>,
     <<<<"p", "r", "o", "d">>, "s_prod", "str", <<"M", "u", "l", "t", "i", "p", "l", "y", " ", "a", " ", "l", "i", "s", "t", " ", "o", "f", " ", "n", "u", "m", "b", "e", "r", "s">>>>,
     <<<<"h", "i", "s", "t">>, "n.histogram", "hist_formatter", <<"P", "r", "o", "d", "u", "c", "e", " ", "a", " ", "h", "i", "s", "t", "o", "g", "r", "a", "m">>>>,
     <<<<"m", "e", "a", "n">>, "s_mean", "str", <<"M", "e", "a", "n">>>>,
     <<<<"m", "e", "d", "i", "a", "n">>, "l(n.median)", "str", <<"M", "e", "d", "i", "a", "n">>>>,
     <<<<"v", "a", "r">>, "s_var", "str", <<"V", "a", "r", "i", "a", "n", "c", "e">>>>,
     <<<<"s", "t", "d">>, "s_std", "str", <<"S", "t", "a", "n", "d", "a", "r", "d", " ", "D", "e", "v", "i", "a", "t", "i", "o", "n">>>>,
     <<<<"c", "u", "m", "s", "u", "m">>, "l(n.cumsum)", "list_formatter", <<"C", "u", "m", "u", "l", "a", "t", "i", "v", "e", " ", "s", "u", "m">>>>,
     <<<<"c", "u", "m", "p", "r", "o", "d">>, "s_cumprod", "list_formatter", <<"C", "u", "m", "u", "l", "a", "t", "i", "v", "e", " ", "p", "r", "o", "d", "u", "c", "t">>>>,
     <<<<"e", "x", "p">>, "s_exp", "list_formatter", <<"E", "x", "p", "o", "n", "e", "n", "t", "i", "a", "t", "e", " ", "e", "v", "e", "r", "y", " ", "e", "l", "e", "m", "e", "n", "t", " ", "i", "n", " ", "t", "h", "e", " ", "l", "i", "s", "t">>>>,
     <<<<"l", "o", "g">>, "s_log", "list_formatter", <<"T", "a", "k", "e", " ", "t", "h", "e", " ", "l", "o", "g", " ", "o", "f", " ", "e", "v", "e", "r", "y", " ", "e", "l", "e", "m", "e", "n", "t", " ", "i", "n", " ", "t", "h", "e", " ", "l", "i", "s", "t">>>>,
     <<<<"p", "r", "i", "n", "t">>, None, "list_formatter", <<"J", "u", "s", "t", " ", "p", "r", "i", "n", "t", " ", "t", "h", "e", " ", "(", "c", "l", "e", "a", "n", "e", "d", ")", " ", "i", "n", "p", "u", "t">>>>,
     <<<<"h", "e", "l", "p">>, None, "str", <<"P", "r", "i", "n", "t", " ", "t", "h", "i", "s", " ", "m", "e", "s", "s", "a", "g", "e">>>>,
     <<<<"r", "s", "t", "a", "t">>, "s_mean_var", "str", <<"C", "o", "m", "p", "u", "t", "e", "s", " ", "m", "e", "a", "n", " ", "&", " ", "v", "a", "r", "i", "a", "n", "c", "e", " ", "w", "i", "t", "h", " ", "l", "o", "w", "e", "r", " ", "m", "e", "m", "o", "r", "y", " ", "u", "s", "a", "g", "e">>>> >>

\* line 143 (the empty dict) followed by the first k registrations
RECURSIVE registered(_)
registered(k) ==
  IF k = 0 THEN <<>>
  ELSE LET r == Registrations[k]
       IN  register_command(registered(k - 1), r[1], NoneObject, r[2], r[3], r[4])

\* the module-level CommandProcessor c after line 192
c == registered(Len(Registrations))

(***************************************************************************)
(* Calls of the CommandProcessor, on a registry that starts as c.          *)
(***************************************************************************)
\* the longest list stream tried
MaxItems == 3

\* the list streams tried: 1.0 .. k.0 upwards and downwards
CmdLists ==
  {[i \in 1..k |-> i] : k \in 0..MaxItems} \cup {[i \in 1..k |-> k + 1 - i] : k \in 2..MaxItems}

\* the input lines a generator stream is built over
CmdLines == {<<"1", "\n">>, <<"x", "\n">>, <<"#", "2", "\n">>}
MaxGenLines == 2

CmdStreams ==
  {list_stream(l) : l \in CmdLists}
    \cup {genexpr_stream(ls) : ls \in SeqsUpTo(CmdLines, MaxGenLines)}

\* the registrations tried: a name already there and two that sort around it
RegNames == {<<"s", "u", "m">>, <<"s", "u">>, <<"z", "z">>}
RegArgs ==
  { [command |-> NoneObject, function |-> None, formatter |-> "str", help |-> NoneText],
    [command |-> Command("max", "str", <<"M", "a", "x">>),
     function |-> "sum", formatter |-> "str", help |-> NoneText],
    [command |-> NoneObject, function |-> "s_cumprod", formatter |-> "list_formatter",
     help |-> <<"x">>] }

\* the names a call of process is tried with
ProcNames ==
  {<<"s", "u", "m">>, <<"a", "d", "d">>, <<"m", "a", "x">>, <<"m", "i", "n">>, <<"p", "r", "o", "d">>, <<"c", "u", "m", "s", "u", "m">>, <<"c", "u", "m", "p", "r", "o", "d">>, <<"p", "r", "i", "n", "t">>, <<"h", "e", "l", "p">>,
   <<"s", "u">>, <<"z", "z">>, <<"n", "o", "s", "u", "c", "h", "c", "o", "m", "m", "a", "n", "d">>}

\* c.register_command(name, ...)
register_command_call ==
  /\ \E name \in RegNames, a \in RegArgs :
       _commands' = register_command(_commands, name, a.command, a.function,
                                     a.formatter, a.help)
  /\ last' = [op |-> "register_command"]
  /\ UNCHANGED <<mv, hf, X, main>>

\* c.command_list()
command_list_call ==
  /\ last' = [op |-> "command_list", ret |-> command_list(_commands)]
  /\ UNCHANGED <<mv, hf, _commands, X, main>>

\* c.process(name, X): the stream object is left as the call leaves it
process_call ==
  /\ \E name \in ProcNames :
       /\ last' = [op |-> "process", name |-> name, data |-> X,
                   ret |-> CommandProcessor_process(_commands, name, X)]
       /\ X' = last'.ret.after
  /\ UNCHANGED <<mv, hf, _commands, main>>

(***************************************************************************)
(* The __main__ block (calc.py 195-218).  argv holds the arguments after   *)
(* the program's name; input holds the lines fileinput yields.             *)
(***************************************************************************)
MaxLines == 2

InputLines ==
  {<<"1", "\n">>, <<" ", "2", "\n">>, <<"-", "3", ".", "0", "\n">>, <<"\n">>, <<" ", "\n">>, <<"#", "1", "\n">>, <<" ", "#", "1", "\n">>, <<"x", "\n">>}

MainCommands ==
  {<<"s", "u", "m">>, <<"a", "d", "d">>, <<"m", "a", "x">>, <<"m", "i", "n">>, <<"p", "r", "o", "d">>, <<"c", "u", "m", "s", "u", "m">>, <<"c", "u", "m", "p", "r", "o", "d">>, <<"p", "r", "i", "n", "t">>, <<"h", "e", "l", "p">>,
   <<"n", "o", "s", "u", "c", "h", "c", "o", "m", "m", "a", "n", "d">>}

MainArgvs == {<<>>} \cup {<<name>> : name \in MainCommands}

\* lines 198-202
Usage(commands) ==
  <<"U", "s", "a", "g", "e", ":", " ", "c", "a", "l", "c", ".", "p", "y", " ", "[", "c", "o", "m", "m", "a", "n", "d", "]", " ", "[", "f", "i", "l", "e", "s", " ", "o", "r", " ", "-", "]", "\n", "R", "e", "a", "d", "s", " ", "a", " ", "l", "i", "s", "t", " ", "o", "f", " ", "n", "u", "m", "b", "e", "r", "s", " ", "f", "r", "o", "m", " ", "t", "h", "e", " ", "f", "i", "l", "e", "s", " ", "o", "r", " ", "s", "t", "a", "n", "d", "a", "r", "d", " ", "i", "n", "p", "u", "t", " ", "i", "f", " ", "f", "i", "l", "e", "s", " ", "a", "r", "e", " ", "m", "i", "s", "s", "i", "n", "g", "\n", "a", "n", "d", " ", "p", "e", "r", "f", "o", "r", "m", "s", " ", "t", "h", "e", " ", "c", "a", "l", "c", "u", "l", "a", "t", "i", "o", "n", " ", "s", "p", "e", "c", "i", "f", "i", "e", "d", " ", "b", "y", " ", "t", "h", "e", " ", "c", "o", "m", "m", "a", "n", "d", ".", "\n", "A", "v", "a", "i", "l", "a", "b", "l", "e", " ", "C", "o", "m", "m", "a", "n", "d", "s", ":", "\n">>
    \o command_list(commands)

\* lines 197-205: help_quit(i, e) writes the usage, then e, and exits with i
help_quit(frame, commands, i, e) ==
  [frame EXCEPT !.pc = "exited",
                !.stderr = @ \o Usage(commands) \o NL
                             \o (IF e.type # None THEN e.msg \o NL ELSE <<>>),
                !.status = i,
                !.by = "help_quit"]

main_enter(argv, input) ==
  [pc |-> "argv", argv |-> argv, input |-> input, l |-> None, parsed |-> <<>>,
   stdout |-> <<>>, stderr |-> <<>>, status |-> None, by |-> None]

\* line 207
main_check_argv ==
  /\ main.pc = "argv"
  /\ main' = IF Len(main.argv) + 1 < 2
             THEN help_quit(main, _commands, 1, NoExc)
             ELSE [main EXCEPT !.pc = "command"]
  /\ UNCHANGED <<mv, hf, _commands, X, last>>

\* lines 209-211
main_check_help ==
  /\ main.pc = "command"
  /\ main' = IF main.argv[1] = <<"h", "e", "l", "p">>
             THEN help_quit(main, _commands, 0, NoExc)
             ELSE [main EXCEPT !.pc = "input"]
  /\ UNCHANGED <<mv, hf, _commands, X, last>>

\* lines 213-214: the generator is built, no line is read yet
main_build_input ==
  /\ main.pc = "input"
  /\ main' = [main EXCEPT !.pc = "process", !.l = genexpr_stream(main.input)]
  /\ UNCHANGED <<mv, hf, _commands, X, last>>

\* lines 215-218 without the except clause of line 217
main_processed_no_except(frame, commands, r) ==
  IF r.kind = "return"
  THEN [frame EXCEPT !.l = r.after, !.parsed = r.parsed, !.pc = "exited",
                     !.stdout = r.text \o NL, !.status = 0, !.by = "end"]
  ELSE [frame EXCEPT !.l = r.after, !.parsed = r.parsed, !.pc = "exited",
                     !.status = 1, !.by = "uncaught",
                     !.stderr = <<"T", "r", "a", "c", "e", "b", "a", "c", "k">>]

\* lines 215-218 once c.process has returned or raised r
main_processed(frame, commands, r) ==
  IF r.kind = "return"
  THEN [frame EXCEPT !.l = r.after, !.parsed = r.parsed, !.pc = "exited",
                     !.stdout = r.text \o NL, !.status = 0, !.by = "end"]
  ELSE IF r.exc.type = "ValueError"
  THEN help_quit([frame EXCEPT !.l = r.after, !.parsed = r.parsed], commands, 1, r.exc)
  ELSE [frame EXCEPT !.l = r.after, !.parsed = r.parsed, !.pc = "exited",
                     !.status = 1, !.by = "uncaught",
                     !.stderr = <<"T", "r", "a", "c", "e", "b", "a", "c", "k", " ", "(", "m", "o", "s", "t", " ", "r", "e", "c", "e", "n", "t", " ", "c", "a", "l", "l", " ", "l", "a", "s", "t", ")", ":", "\n">>]

\* lines 215-218: the result is printed; a ValueError goes to help_quit;
\* any other exception ends the run with a traceback
main_process ==
  /\ main.pc = "process"
  /\ main' = main_processed(main, _commands,
                             CommandProcessor_process(_commands, main.argv[1], main.l))
  /\ UNCHANGED <<mv, hf, _commands, X, last>>

(***************************************************************************)
(* Specifications.                                                         *)
(***************************************************************************)
Idle == [pc |-> "idle"]
IdleStream == list_stream(<<>>)
IdleCall == [op |-> "idle"]

Init_stats ==
  /\ mv \in {s_mean_var_enter(data) : data \in MeanVarInputs}
  /\ hf = Idle /\ _commands = c /\ X = IdleStream /\ last = IdleCall /\ main = Idle

Next_stats == s_mean_var_iter \/ s_mean_var_return

Spec_stats == Init_stats /\ [][Next_stats]_vars

Init_hist ==
  /\ hf \in {hist_formatter_enter(vals, HistEdges(lo, step, Len(vals)), tick_char, max_width) :
               vals \in HistCounts, lo \in HistLows, step \in HistSteps,
               tick_char \in TickChars, max_width \in 0..MaxWidth}
  /\ mv = Idle /\ _commands = c /\ X = IdleStream /\ last = IdleCall /\ main = Idle

Next_hist == hist_formatter_call

Spec_hist == Init_hist /\ [][Next_hist]_vars

Init_cmd ==
  /\ _commands = c
  /\ X \in CmdStreams
  /\ last = [op |-> "__init__"]
  /\ mv = Idle /\ hf = Idle /\ main = Idle

Next_cmd == register_command_call \/ command_list_call \/ process_call

Spec_cmd == Init_cmd /\ [][Next_cmd]_vars

Init_main ==
  /\ _commands = c
  /\ main \in {main_enter(argv, input) :
                 argv \in MainArgvs, input \in SeqsUpTo(InputLines, MaxLines)}
  /\ mv = Idle /\ hf = Idle /\ X = IdleStream /\ last = IdleCall

Next_main == main_check_argv \/ main_check_help \/ main_build_input \/ main_process

Spec_main == Init_main /\ [][Next_main]_vars

(***************************************************************************)
(* What the claims are stated with.                                        *)
(***************************************************************************)
\* s.split(ch)
RECURSIVE SplitOn(_, _)
SplitOn(s, ch) ==
  IF \A i \in 1..Len(s) : s[i] # ch THEN <<s>>
  ELSE LET k == CHOOSE i \in 1..Len(s) : s[i] = ch /\ \A j \in 1..(i - 1) : s[j] # ch
       IN  <<SubSeq(s, 1, k - 1)>> \o SplitOn(SubSeq(s, k + 1, Len(s)), ch)

CountOf(s, ch) == Cardinality({i \in 1..Len(s) : s[i] = ch})

IsPrefix(p, s) == Len(p) <= Len(s) /\ SubSeq(s, 1, Len(p)) = p

\* the two-pass reference: the mean, and the sample variance around it
Mean2(xs) == IF Len(xs) > 0 THEN Rat(SumSeq(xs), Len(xs)) ELSE R(0)

RECURSIVE SumSqDev(_, _)
SumSqDev(xs, m) ==
  IF xs = <<>> THEN R(0)
  ELSE RAdd(RMul(RSub(R(Head(xs)), m), RSub(R(Head(xs)), m)), SumSqDev(Tail(xs), m))

Var2(xs) == IF Len(xs) > 1 THEN RDiv(SumSqDev(xs, Mean2(xs)), R(Len(xs) - 1)) ELSE R(0)

\* C1: s_mean_var agrees with the two-pass reference in exact arithmetic.
\* After each element n counts the prefix, n*M is the sum of the prefix and S
\* is the sum of its squared deviations from M; the pair returned is
\* (sum/n, S/(n-1)), with 0.0 for the mean of no element and for the variance
\* of fewer than two, so [] gives (0.0, 0.0) and [5.0] gives (5.0, 0.0).
C1_MeanVarTwoPass ==
  /\ (mv.pc = "loop" /\ mv.i > 0) =>
       /\ mv.m_n = mv.i
       /\ RMul(R(mv.m_n), mv.m_newM) = R(SumSeq(Prefix(mv.data, mv.i)))
       /\ mv.m_newS = SumSqDev(Prefix(mv.data, mv.i), mv.m_newM)
  /\ mv.pc = "done" => mv.ret = <<Mean2(mv.data), Var2(mv.data)>>
  /\ (mv.pc = "done" /\ mv.data = <<>>) => mv.ret = <<R(0), R(0)>>
  /\ (mv.pc = "done" /\ mv.data = <<5>>) => mv.ret = <<R(5), R(0)>>

\* three elements whose mean is no integer and whose variance is not zero
C1_Witness ==
  /\ mv.pc = "done"
  /\ Len(mv.data) = 3
  /\ mv.ret[1].den = 3
  /\ mv.ret[2].num # 0

(***************************************************************************)
(* hist_formatter.                                                         *)
(***************************************************************************)
HistDone == hf.pc = "done"
HistVals == hf.x[1]
HistN == Len(hf.x[1])
HistMaxVal == Max(Range(hf.x[1]))
\* the label width: the longest '%0.2g' text of an edge
HistW == Max({Len(fmt_02g(hf.x[2][i])) : i \in 1..Len(hf.x[2])})
HistAvailable == hf.max_width - 5 - 2 * HistW
HistFits == HistMaxVal + 5 + 2 * HistW <= hf.max_width
HistLines == SplitOn(hf.out.s, "\n")
\* the rows of the bins: the last HistN lines of the output
HistRow(i) == HistLines[Len(HistLines) - HistN + i]
HistTicks(i) == CountOf(HistRow(i), hf.tick_char[1])
\* row i is "[lo,hi): " or "[lo,hi]: " with the labels of bin i, then ticks only
HistRowOfBin(i) ==
  /\ IsPrefix(<<"[">> \o rjust(fmt_02g(hf.x[2][i]), HistW) \o <<",">>
                \o rjust(fmt_02g(hf.x[2][i + 1]), HistW)
                \o <<IF i = HistN THEN "]" ELSE ")", ":", " ">>, HistRow(i))
  /\ Len(HistRow(i)) = 5 + 2 * HistW + HistTicks(i)

\* C4 as stated: with a largest count above 0, the output is one row per bin
\* in bin order, and row i has counts[i] ticks when maxVal + 5 + 2w <= maxWidth
\* and floor((maxWidth - 5 - 2w) * counts[i] / maxVal) ticks otherwise.
C4_AsStated ==
  (HistDone /\ HistMaxVal > 0) =>
    /\ hf.out.kind = "return"
    /\ Len(HistLines) = HistN
    /\ \A i \in 1..HistN :
         /\ HistRowOfBin(i)
         /\ HistTicks(i) = IF HistFits THEN HistVals[i]
                           ELSE (HistAvailable * HistVals[i]) \div HistMaxVal

\* C4 amended: with a largest count above 0, the output ends with one row per
\* bin in bin order (a single-bin output starts with an empty line before its
\* row), and row i has counts[i] ticks when maxVal + 5 + 2w <= maxWidth and
\* max(0, floor((maxWidth - 5 - 2w) * counts[i] / maxVal)) ticks otherwise.
C4_TickCounts ==
  (HistDone /\ HistMaxVal > 0) =>
    /\ hf.out.kind = "return"
    /\ HistLines[1] = <<>> <=> HistN = 1
    /\ Len(HistLines) = IF HistN = 1 THEN 2 ELSE HistN
    /\ \A i \in 1..HistN :
         /\ HistRowOfBin(i)
         /\ HistTicks(i) = IF HistFits THEN HistVals[i]
                           ELSE Max({0, (HistAvailable * HistVals[i]) \div HistMaxVal})

\* a rescaled histogram where the floor cuts a bar
C4_Witness ==
  /\ HistDone /\ HistMaxVal > 0 /\ ~HistFits /\ HistAvailable > 0 /\ HistN = 2
  /\ \E i \in 1..HistN : (HistAvailable * HistVals[i]) % HistMaxVal # 0
  /\ \E i \in 1..HistN : HistTicks(i) > 0 /\ HistTicks(i) < HistAvailable

\* C9: with all bins empty (maxVal = 0) hist_formatter returns rows with no
\* tick, for every label width and every max_width, and does not raise.
C9_NoDivisionByZero ==
  (HistDone /\ HistMaxVal = 0) =>
    /\ hf.out.kind = "return"
    /\ \A i \in 1..HistN : HistTicks(i) = 0

\* C10: with max_width >= 5 + 2w (and counts >= 0, a one-character tick)
\* every line of the output is at most max_width long, a row being 5 + 2w
\* characters and its ticks; when the histogram is rescaled a row of the
\* largest bin has exactly max_width - 5 - 2w ticks; and no bin with a
\* smaller count gets more ticks than one with a larger count.
C10_WidthBound ==
  (HistDone /\ hf.max_width >= 5 + 2 * HistW) =>
    /\ hf.out.kind = "return"
    /\ \A k \in 1..Len(HistLines) : Len(HistLines[k]) <= hf.max_width
    /\ \A i \in 1..HistN : HistRowOfBin(i)
    /\ ~HistFits =>
         \A i \in 1..HistN : HistVals[i] = HistMaxVal => HistTicks(i) = HistAvailable
    /\ \A i, j \in 1..HistN : HistVals[i] <= HistVals[j] => HistTicks(i) <= HistTicks(j)

\* a rescaled histogram of two unequal bars in a width that holds the labels
C10_Witness ==
  /\ HistDone /\ hf.max_width >= 5 + 2 * HistW /\ ~HistFits /\ HistN = 2
  /\ HistVals[1] < HistVals[2] /\ HistVals[1] > 0
  /\ HistTicks(2) = HistAvailable /\ HistTicks(1) < HistTicks(2)
  /\ Len(HistRow(2)) = hf.max_width

(***************************************************************************)
(* Command and CommandProcessor.  In a state whose last call is process,   *)
(* the registry is the one the call looked the name up in.                 *)
(***************************************************************************)
Processed == last.op = "process"
Outcome(ret) == <<ret.kind, ret.exc, ret.text>>

\* formatter(r) for the value or the exception r of the operation
FormatterOf(formatter, r, f) ==
  IF r.exc.type # None THEN <<"raise", r.exc, <<>>>>
  ELSE <<IF f.exc.type # None THEN "raise" ELSE "return", f.exc, f.text>>

FormatterOfOperation(cmd, r) ==
  FormatterOf(cmd.formatter, r, apply_formatter(cmd.formatter, r.val, r.after))

Unchanged(data) == [val |-> [t |-> "data"], exc |-> NoExc, after |-> data, parsed |-> <<>>]

\* C2: for a registered name, process(name, stream) is
\* formatter(operation(stream)) when the command has an operation and
\* formatter(stream), the stream passed through unchanged, when it has none;
\* 'sum' on [1.0, 2.0, 3.0] gives "6.0", 'print' on [1.0, 2.0] gives "1.0\n2.0".
C2_FormatterOfOperation ==
  (Processed /\ last.name \in DOMAIN _commands) =>
    /\ _commands[last.name].function # None =>
         Outcome(last.ret) =
           FormatterOfOperation(_commands[last.name],
                                call_function(_commands[last.name].function, last.data))
    /\ _commands[last.name].function = None =>
         Outcome(last.ret) = FormatterOfOperation(_commands[last.name], Unchanged(last.data))
    /\ (last.name = <<"s", "u", "m">> /\ _commands[last.name] = c[last.name]
          /\ last.data = list_stream(<<1, 2, 3>>)) =>
         Outcome(last.ret) = <<"return", NoExc, <<"6", ".", "0">>>>
    /\ (last.name = <<"p", "r", "i", "n", "t">> /\ last.data = list_stream(<<1, 2>>)) =>
         Outcome(last.ret) = <<"return", NoExc, <<"1", ".", "0", "\n", "2", ".", "0">>>>
    /\ (last.name = <<"h", "e", "l", "p">> /\ last.data = list_stream(<<1, 2>>)) =>
         Outcome(last.ret) = <<"return", NoExc, <<"[", "1", ".", "0", ",", " ", "2", ".", "0", "]">>>>

\* 'sum' of the catalogue has processed [1.0, 2.0, 3.0]
C2_Witness ==
  /\ Processed /\ last.name = <<"s", "u", "m">> /\ _commands[last.name] = c[last.name]
  /\ last.data = list_stream(<<1, 2, 3>>)
  /\ last.ret.calls = <<"sum", "str">>
  /\ last.ret.text = <<"6", ".", "0">>

\* C3: for a name that is no key of the registry, process fails with
\* ValueError 'Command not found: <name>', enters no operation and no
\* formatter and reads nothing from the stream; for a name that is a key,
\* no 'Command not found' error is raised.
C3_CommandNotFound ==
  Processed =>
    /\ last.name \notin DOMAIN _commands =>
         /\ last.ret.kind = "raise"
         /\ last.ret.exc = Raise("ValueError", <<"C", "o", "m", "m", "a", "n", "d", " ", "n", "o", "t", " ", "f", "o", "u", "n", "d", ":", " ">> \o last.name)
         /\ last.ret.calls = <<>>
         /\ last.ret.parsed = <<>>
         /\ last.ret.after = last.data
         /\ X = last.data
    /\ last.name \in DOMAIN _commands =>
         ~(last.ret.kind = "raise" /\ IsPrefix(<<"C", "o", "m", "m", "a", "n", "d", " ", "n", "o", "t", " ", "f", "o", "u", "n", "d", ":", " ">>, last.ret.exc.msg))

\* an unknown name was processed against a generator that has lines to read
C3_Witness ==
  /\ Processed /\ last.name = <<"n", "o", "s", "u", "c", "h", "c", "o", "m", "m", "a", "n", "d">>
  /\ last.ret.kind = "raise"
  /\ X.kind = "generator" /\ Len(X.items) > 0 /\ X.pos = 0 /\ ~X.closed

\* a step that processes 'print' right after a call that processed 'print'
\* (only process sets last.op to "process", and the stream X is the same object)
PrintAgain ==
  /\ Processed /\ last.name = <<"p", "r", "i", "n", "t">>
  /\ last'.op = "process" /\ last'.name = <<"p", "r", "i", "n", "t">>
  /\ last'.data = X

SameText == Outcome(last'.ret) = Outcome(last.ret)

\* C5 as stated: for every stream X, also a once-iterable one, process('print', X)
\* applied twice yields the same formatted text both times.
C5_AsStated == [][PrintAgain => SameText]_vars

\* C5 amended: for a stream X that can be iterated again (a list),
\* process('print', X) applied twice yields the same text both times; for a
\* once-iterable generator the second call returns the empty text, whatever
\* the first call returned or raised.
C5_PrintTwice ==
  [][PrintAgain =>
       IF X.kind = "list" THEN SameText
       ELSE Outcome(last'.ret) = <<"return", NoExc, <<>>>>]_vars

\* 'print' has processed a generator that a call before had read to its end
C5_Witness ==
  /\ Processed /\ last.name = <<"p", "r", "i", "n", "t">>
  /\ last.data.kind = "generator" /\ last.data.closed
  /\ last.data.items = <<<<"1", "\n">>>>
  /\ last.ret.text = <<>>

\* the name of a line of the listing when the line is "<name>\t<help>", and
\* when the line is "\t<name>\t<help>"
NameBeforeTab(line) == SplitOn(line, "\t")[1]
NameAfterTab(line) == SplitOn(line, "\t")[2]
Listed == last.op = "command_list"

\* the lines are one per name of the registry, each name's line made by Line
OnePerName(lines, Line(_)) ==
  /\ Len(lines) = Cardinality(DOMAIN _commands)
  /\ \A n \in DOMAIN _commands : \E i \in 1..Len(lines) : lines[i] = Line(n)

\* the names the lines hold, found by Name, ascend strictly
Ascending(lines, Name(_)) ==
  \A i \in 1..(Len(lines) - 1) : str_lt(Name(lines[i]), Name(lines[i + 1]))

LineAsStated(n) == n \o TAB \o str_help(_commands[n].help)
LineWithLeadingTab(n) == TAB \o n \o TAB \o str_help(_commands[n].help)

\* C6 as stated: command_list() is one line per registered name, in strict
\* ascending order of name, each line exactly "<name>\t<helpText>".
C6_AsStated ==
  Listed =>
    LET lines == SplitOn(last.ret, "\n")
    IN  OnePerName(lines, LineAsStated) /\ Ascending(lines, NameBeforeTab)

\* C6 amended: command_list() is one line per registered name, in strict
\* ascending order of name, each line exactly "\t<name>\t<helpText>" (a
\* leading tab), the help text being the name's current one, None shown as
\* "None".
C6_SortedListing ==
  Listed =>
    LET lines == SplitOn(last.ret, "\n")
    IN  OnePerName(lines, LineWithLeadingTab) /\ Ascending(lines, NameAfterTab)

\* the listing of a registry with two names added and 'sum' registered again
C6_Witness ==
  /\ Listed
  /\ {<<"s", "u">>, <<"z", "z">>} \subseteq DOMAIN _commands
  /\ _commands[<<"s", "u", "m">>].help = NoneText
  /\ _commands[<<"z", "z">>].help = <<"M", "a", "x">>
  /\ Len(SplitOn(last.ret, "\n")) = Len(Registrations) + 2

(***************************************************************************)
(* The frontend.                                                           *)
(***************************************************************************)
Exited == main.pc = "exited"
\* the run got to c.process (line 216): a command was given and was not 'help'
RanProcess == Exited /\ Len(main.argv) >= 1 /\ main.argv[1] # <<"h", "e", "l", "p">>
Recognized == main.argv[1] \in DOMAIN _commands

Blank(x) == \A k \in 1..Len(x) : IsSpace(x[k])
\* a comment as the spec words it: the first non-space character is '#'
CommentAfterSpaces(x) ==
  \E k \in 1..Len(x) : x[k] = "#" /\ \A j \in 1..(k - 1) : IsSpace(x[j])
\* a comment as line 214 tests it: the first character is '#'
CommentAtColumn0(x) == x[1] = "#"
NoFloat(x) == ~float(strip(x)).ok

Indexes(input, P(_)) == {i \in 1..Len(input) : P(input[i])}

\* lines that are malformed whichever way a comment is read
Malformed(x) == ~Blank(x) /\ ~CommentAfterSpaces(x) /\ NoFloat(x)
\* lines that float() is given and cannot parse
Unparsed(x) == ~Blank(x) /\ ~CommentAtColumn0(x) /\ NoFloat(x)

\* C7 as stated: for a recognized command, an input line that is not blank,
\* is no comment and does not parse as a float ends the run with an uncaught
\* parse error, never through the frontend's handler of an unknown command
\* (help_quit: usage and error text on standard error, exit status 1).
C7_AsStated ==
  (RanProcess /\ Recognized /\ Indexes(main.input, Malformed) # {}) =>
    main.by = "uncaught"

\* C7 amended: for a recognized command, the first input line that is not
\* blank, does not begin with '#' and does not parse as a float raises
\* ValueError when the command reads it (every command reads it, unless exp
\* or log has failed on an earlier value), and the frontend's handler of
\* ValueError, the one of an unknown command, catches it: the run ends
\* in help_quit with the usage and the error's text on standard error,
\* nothing on standard output and exit status 1, no later line being read.
C7_ParseErrorCaught ==
  (RanProcess /\ Recognized /\ Indexes(main.input, Unparsed) # {}) =>
    /\ main.by = "help_quit"
    /\ main.status = 1
    /\ main.stdout = <<>>
    /\ main.stderr =
         Usage(_commands) \o NL
           \o float(strip(main.input[Min(Indexes(main.input, Unparsed))])).exc.msg \o NL
    /\ main.l.pos = Min(Indexes(main.input, Unparsed))

\* 'sum' has read 1 and then a line that is no number
C7_Witness ==
  /\ RanProcess /\ main.argv = <<<<"s", "u", "m">>>>
  /\ main.input = <<<<"1", "\n">>, <<"x", "\n">>>>
  /\ main.by = "help_quit"
  /\ main.parsed = <<1, 2>>

\* the numbers, in order, of the lines among the first k that P holds of
RECURSIVE InOrder(_)
InOrder(S) ==
  IF S = {} THEN <<>>
  ELSE LET m == CHOOSE i \in S : \A j \in S : j <= i
       IN Append(InOrder(S \ {m}), m)

Selected(input, k, P(_)) == InOrder({i \in 1..k : P(input[i])})

KeptAsStated(x) == ~Blank(x) /\ ~CommentAfterSpaces(x)
KeptAtColumn0(x) == ~Blank(x) /\ ~CommentAtColumn0(x)

\* C8 as stated: of the lines read, the filter skips exactly the blank ones
\* and those whose first non-space character is '#' (so a line with spaces
\* before '#' is skipped); the others, and only those, go to float(), in
\* input order.
C8_AsStated ==
  RanProcess => main.parsed = Selected(main.input, main.l.pos, KeptAsStated)

\* C8 amended: of the lines read, the filter skips exactly the blank ones and
\* those whose first character is '#'; the others, and only those, go to
\* float(), in input order, so that a line with spaces before '#' is given to
\* float() and not skipped.  The commands sum, add, max, min, prod, cumsum,
\* cumprod and print read the lines up to the first one float() cannot
\* parse, or all of them; an unknown command reads none.
C8_FilterAtColumn0 ==
  RanProcess =>
    /\ main.parsed = Selected(main.input, main.l.pos, KeptAtColumn0)
    /\ main.l.pos =
         IF ~Recognized THEN 0
         ELSE IF Indexes(main.input, Unparsed) # {}
         THEN Min(Indexes(main.input, Unparsed))
         ELSE Len(main.input)

\* 'print' has skipped a blank line and given " #1" to float()
C8_Witness ==
  /\ RanProcess /\ main.argv = <<<<"p", "r", "i", "n", "t">>>>
  /\ main.input = <<<<" ", "\n">>, <<" ", "#", "1", "\n">>>>
  /\ main.parsed = <<2>>
  /\ main.by = "help_quit"

====
